---- MODULE Spec2Model ----
(***************************************************************************)
(* Model of selfdrive/loggerd/uploader.py: the Uploader object (segment    *)
(* scan, two-pass selection, compression, credential request, transfer,    *)
(* deletion, directory cleanup) and the scheduler loop uploader_fn, run    *)
(* against a directory tree that a recorder fills segment by segment.      *)
(*                                                                         *)
(* Specifications: Spec, the loop next to the recorder; SpecQuiet and       *)
(* SpecStale, the loop on a tree that nothing else changes; SpecKill, the  *)
(* threads of killable_upload and abort_upload.                            *)
(*                                                                         *)
(* Paths and keys are strings and are built and tested as the code builds  *)
(* and tests them (os.path.join, str.endswith, += ext).  Durations are in  *)
(* units of 0.1 s, the base backoff of uploader_fn.                        *)
(***************************************************************************)
EXTENDS Integers, Sequences, FiniteSets, TLC

VARIABLES
  tree,        \* the directory ROOT: entry name -> [kind, ctime, files]
  rec,         \* the recorder's position in each segment's life
  pc,          \* the line uploader_fn (or the call it is in) is at
  exit_event,  \* the threading.Event handed to uploader_fn
  polled,      \* what exit_event.is_set() returned at line 214 of this iteration
  backoff,     \* uploader_fn's local backoff
  d,           \* uploader_fn's local d, the task next_file_to_upload returned
  key,         \* upload's local key
  fn,          \* upload's local fn
  sz,          \* upload's local sz
  stat,        \* upload's local stat, the value normal_upload returned
  success,     \* upload's local success, then uploader_fn's
  last_resp,   \* Uploader.last_resp
  last_exc,    \* Uploader.last_exc
  sleeping,    \* the duration of the time.sleep in progress, 0 when none
  calls,       \* history: the network calls of the upload call in progress
  cleaned,     \* history: clean_dirs ran in the upload call in progress
  fails,       \* history: failed uploads since the last successful one
  iter,        \* history: sleeps and uploads begun since line 214 was last reached
  arg,         \* history: key, fn, the file's size and last_resp when upload was called
  via,         \* history: the way the upload call in progress came to its return
  retry,       \* history: the file whose transfer failed in the call before
  stale,       \* history: the .tmp files that were there when the loop began
  kpc,         \* the line the caller of killable_upload is at
  upload_thread,  \* Uploader.upload_thread: 0 for None, or a thread object
  worker,      \* where each thread object is in its life and in do_upload
  wend,        \* history: how each thread ended
  pending,     \* the asynchronous exception set for a thread, not yet raised
  put_resp,    \* what requests.put returned to the thread, before it is stored
  responded,   \* history: requests.put returned a response in this call
  kstat,       \* what killable_upload returned
  apc,         \* the line the caller of abort_upload is at
  thread,      \* abort_upload's local thread
  tid          \* raise_on_thread's local tid

vars == <<tree, rec, pc, exit_event, polled, backoff, d, key, fn, sz, stat,
          success, last_resp, last_exc, sleeping, calls, cleaned, fails, iter,
          arg, via, retry, stale, kpc, upload_thread, worker, wend, pending, put_resp,
          responded, kstat, apc, thread, tid>>

(***************************************************************************)
(* Bounds of the model.                                                    *)
(***************************************************************************)
MaxFails == 2   \* an upload may fail only while fewer than MaxFails failed in a row
MaxUploads == 2 \* calls of killable_upload

(***************************************************************************)
(* Program constants.                                                      *)
(***************************************************************************)
BASE_BACKOFF == 1    \* backoff = 0.1, in units of 0.1 s
IDLE_SLEEP == 50     \* time.sleep(5), in units of 0.1 s
HTTP_OK == 200       \* stat.status_code == 200
BZ2_EMPTY == 14      \* bytes bzip2 -c writes for an empty input

ROOT == "/data/media/0/realdata"
ext == ".bz2"

SegNames == {"a", "b"}            \* the segments the recorder creates
StrayNames == {"x"}               \* a root entry that is no segment directory
EntryNames == SegNames \cup StrayNames
ArtifactNames == {"rlog", "fcam.hevc"}  \* what the recorder writes
StoredNames == ArtifactNames \cup {"qlog"}  \* what a segment on disk can hold
LockName == "rlog.lock"           \* the recorder's marker file
FileSizes == {0, 3}               \* sizes the recorder leaves a file with
Ctimes == {1, 2}                  \* st_ctime values: two segments in every order
Statuses == {200, 500}            \* status codes the object store answers

None == [isNone |-> TRUE, status_code |-> 0, exc |-> ""]
Resp(code) == [isNone |-> FALSE, status_code |-> code, exc |-> ""]
Exc(what) == [isNone |-> FALSE, status_code |-> 0, exc |-> what]

(***************************************************************************)
(* Strings and paths.                                                      *)
(***************************************************************************)
endswith(s, suffix) ==
  /\ Len(s) >= Len(suffix)
  /\ SubSeq(s, Len(s) - Len(suffix) + 1, Len(s)) = suffix

join(a, b) == a \o "/" \o b

\* Every file name a segment can hold: what the recorder writes, its marker,
\* and what the compression step of upload derives from a name.
FileNames ==
  StoredNames \cup {LockName}
    \cup {n \o ".tmp" : n \in StoredNames} \cup {n \o ext : n \in StoredNames}

(***************************************************************************)
(* The directory tree.                                                     *)
(***************************************************************************)
Absent == [kind |-> "none", ctime |-> 0, files |-> <<>>]
Dir(t, files) == [kind |-> "dir", ctime |-> t, files |-> files]

IsDir(t, logname) == t[logname].kind = "dir"
Names(t, logname) == DOMAIN t[logname].files
ListRoot(t) == {e \in EntryNames : t[e].kind # "none"}

PathOf(logname, name) == join(join(ROOT, logname), name)

\* The (segment, name) pairs that the path p names.
Parse(p) == {sn \in EntryNames \X FileNames : PathOf(sn[1], sn[2]) = p}

\* os.path.exists(p)
exists(t, p) ==
  \E sn \in Parse(p) : IsDir(t, sn[1]) /\ sn[2] \in Names(t, sn[1])

\* os.path.getsize(p), for a path that exists
getsize(t, p) ==
  LET sn == CHOOSE x \in Parse(p) : TRUE IN t[sn[1]].files[sn[2]]

\* A directory that loses every name when one is removed.
WithoutAll(f, n) == <<>>

Without(f, n) == [m \in (DOMAIN f) \ {n} |-> f[m]]

\* os.unlink(p); rm p
unlink(t, p) ==
  IF ~exists(t, p) THEN t
  ELSE LET sn == CHOOSE x \in Parse(p) : TRUE IN
       [t EXCEPT ![sn[1]].files = Without(@, sn[2])]

\* The file p created or replaced, size bytes long: "> p", and mv's target.
creat(t, p, size) ==
  LET sn == CHOOSE x \in Parse(p) : TRUE IN
  [t EXCEPT ![sn[1]].files = (sn[2] :> size) @@ @]

(***************************************************************************)
(* Directory listings.  os.listdir returns the names of a directory in an  *)
(* order the file system chooses; Listings is every choice of one order    *)
(* per segment directory, ls[logname]; the root's listing is an Orders of  *)
(* its entries.                                                            *)
(***************************************************************************)
RECURSIVE Orders(_)
Orders(S) ==
  IF S = {} THEN {<<>>}
  ELSE UNION {{<<n>> \o q : q \in Orders(S \ {n})} : n \in S}

RECURSIVE ListingsOf(_, _)
ListingsOf(t, dirs) ==
  IF dirs = {} THEN {<<>>}
  ELSE LET logname == CHOOSE e \in dirs : TRUE IN
       {(logname :> q) @@ rest :
          q \in Orders(Names(t, logname)), rest \in ListingsOf(t, dirs \ {logname})}

Listings(t) == ListingsOf(t, {e \in EntryNames : IsDir(t, e)})

(***************************************************************************)
(* listdir_with_creation_date, listdir_by_creation_date                    *)
(***************************************************************************)
\* os.stat(os.path.join(d, fn)) raises OSError for a name that resolves to
\* nothing (a dangling link): the pair yielded is then (None, fn).
StatFails(t, logname) == t[logname].kind = "dangling"

\* The (ctime, fn) pairs in the order of the listing lst.
listdir_with_creation_date(t, lst) ==
  [i \in DOMAIN lst |->
     [none |-> StatFails(t, lst[i]),
      ctime |-> IF StatFails(t, lst[i]) THEN 0 ELSE t[lst[i]].ctime,
      fn |-> lst[i]]]

\* Python's order of the entry names of the model.
NameOrder == <<"a", "b", "x">>
NameIndex(n) == CHOOSE i \in DOMAIN NameOrder : NameOrder[i] = n

\* (ctime, fn) < (ctime', fn') as sorted() compares the tuples; None is
\* smaller than every number.
TupleLess(p, q) ==
  \/ p.none /\ ~q.none
  \/ ~p.none /\ ~q.none /\ p.ctime < q.ctime
  \/ /\ p.none = q.none
     /\ p.ctime = q.ctime
     /\ NameIndex(p.fn) < NameIndex(q.fn)

\* The sequence q without its i-th element.
Drop(q, i) == SubSeq(q, 1, i - 1) \o SubSeq(q, i + 1, Len(q))

\* A list left in the order it was given in.
unsorted(q) == q

\* sorted(q): the elements of q in ascending order, equal ones in the order
\* they have in q.
RECURSIVE sorted(_)
sorted(q) ==
  IF q = <<>> THEN <<>>
  ELSE LET m == CHOOSE i \in DOMAIN q :
                  /\ \A j \in DOMAIN q : ~TupleLess(q[j], q[i])
                  /\ \A j \in 1..(i - 1) : TupleLess(q[i], q[j])
       IN  <<q[m]>> \o sorted(Drop(q, m))

listdir_by_creation_date(t, lst) ==
  LET times_and_paths == sorted(listdir_with_creation_date(t, lst)) IN
  [i \in DOMAIN times_and_paths |-> times_and_paths[i].fn]

(***************************************************************************)
(* Uploader.gen_upload_files: the sequence of (name, key, fn) the          *)
(* generator yields when listdir_by_creation_date(self.root) returns       *)
(* lognames and the segments are listed as in ls.  os.listdir(path) of a   *)
(* root entry that is no directory raises OSError, which nothing in        *)
(* gen_upload_files catches: the sequence then ends with Raised.  ROOT     *)
(* itself is a directory throughout (the test of line 87 passes).          *)
(***************************************************************************)
Raised == [raised |-> TRUE, name |-> "", key |-> "", fn |-> ""]
Yield(name, k, f) == [raised |-> FALSE, name |-> name, key |-> k, fn |-> f]

\* A scan that looks for the marker in the first name listed only.
HasLockFirstOnly(names) == names # <<>> /\ endswith(names[1], ".lock")

HasLock(names) == \E i \in DOMAIN names : endswith(names[i], ".lock")

RECURSIVE GenFrom(_, _, _)
GenFrom(t, ls, lognames) ==
  IF lognames = <<>> THEN <<>>
  ELSE LET logname == Head(lognames)
           path == join(ROOT, logname)
       IN  IF ~IsDir(t, logname) THEN <<Raised>>
           ELSE LET names == ls[logname] IN
                IF HasLock(names) THEN GenFrom(t, ls, Tail(lognames))
                ELSE [i \in DOMAIN names |->
                        Yield(names[i], join(logname, names[i]), join(path, names[i]))]
                       \o GenFrom(t, ls, Tail(lognames))

\* What listdir_by_creation_date(ROOT) can return, over the orders in which
\* os.listdir can list the root.
Scans(t) == {listdir_by_creation_date(t, lst) : lst \in Orders(ListRoot(t))}

gen_upload_files(t, lognames, ls) == GenFrom(t, ls, lognames)

(***************************************************************************)
(* Uploader.next_file_to_upload                                            *)
(***************************************************************************)
NoTask == [kind |-> "None", key |-> "", fn |-> "", class |-> 0]
Raise == [kind |-> "raise", key |-> "", fn |-> "", class |-> 0]
Task(k, f, c) == [kind |-> "task", key |-> k, fn |-> f, class |-> c]

\* A first pass that does not know the compressed log.
IsLogNameUncompressed(name) == name = "rlog"

IsLogName(name) == name \in {"rlog", "rlog.bz2"}
IsCameraName(name) == ~endswith(name, ".lock") /\ ~endswith(name, ".tmp")

\* The first of the places of the generator's sequence where a pass stops
\* (at an item it returns, or where the generator raises); 0 when none.
FirstStop(stops) ==
  IF stops = {} THEN 0 ELSE CHOOSE i \in stops : \A j \in stops : i <= j

\* A selection in one pass: the first file that either pass would take.
next_file_single_pass(t, lognames, ls) ==
  LET gen == gen_upload_files(t, lognames, ls)
      i == FirstStop({k \in DOMAIN gen :
             gen[k].raised \/ IsLogName(gen[k].name) \/ IsCameraName(gen[k].name)})
  IN  IF i = 0 THEN NoTask
      ELSE IF gen[i].raised THEN Raise
           ELSE Task(gen[i].key, gen[i].fn, IF IsLogName(gen[i].name) THEN 0 ELSE 1)

next_file_to_upload(t, lognames, ls) ==
  LET gen == gen_upload_files(t, lognames, ls)
      i == FirstStop({k \in DOMAIN gen : gen[k].raised \/ IsLogName(gen[k].name)})
      j == FirstStop({k \in DOMAIN gen : gen[k].raised \/ IsCameraName(gen[k].name)})
  IN  IF i # 0
      THEN IF gen[i].raised THEN Raise ELSE Task(gen[i].key, gen[i].fn, 0)
      ELSE IF j # 0
           THEN IF gen[j].raised THEN Raise ELSE Task(gen[j].key, gen[j].fn, 1)
           ELSE NoTask

(***************************************************************************)
(* Uploader.clean_dirs, over the root listing `order`.  os.listdir(path)   *)
(* of an entry that is no directory raises OSError, which ends the loop    *)
(* (the except clause is outside it).                                      *)
(***************************************************************************)
RECURSIVE clean_dirs(_, _)
clean_dirs(t, order) ==
  IF order = <<>> THEN t
  ELSE LET logname == Head(order) IN
       IF ~IsDir(t, logname) THEN t
       ELSE IF Names(t, logname) = {}
            THEN clean_dirs([t EXCEPT ![logname] = Absent], Tail(order))
            ELSE clean_dirs(t, Tail(order))

(***************************************************************************)
(* The compression command of upload,                                      *)
(*   nice -n 19 bzip2 -c fn > fn.tmp && mv fn.tmp fn.bz2 && rm fn          *)
(* Its outcomes: "ok", every command of the chain exits 0; "redirect",     *)
(* the shell cannot create fn.tmp and runs nothing; "bzip2", fn.tmp is     *)
(* created and bzip2 exits non-zero before it has written anything to it   *)
(* (mv and rm then do not run).  A directory that lets the shell create    *)
(* fn.tmp lets mv and rm succeed too.                                      *)
(***************************************************************************)
CompressOutcomes == {"ok", "redirect", "bzip2"}

\* The size of bzip2's output: never empty.
BzSize(size) == BZ2_EMPTY + size

\* A command that redirects bzip2's output onto the file it reads.
compress_onto_original(t, f, outcome) ==
  LET bz == f \o ext
  IN  CASE outcome = "redirect" -> t
        [] outcome = "bzip2" -> creat(t, f, 0)
        [] outcome = "ok" -> unlink(creat(t, bz, BzSize(getsize(t, f))), f)

compress(t, f, outcome) ==
  LET tmp == f \o ".tmp"
      bz == f \o ext
  IN  CASE outcome = "redirect" -> t
        [] outcome = "bzip2" -> creat(t, tmp, 0)
        [] outcome = "ok" -> unlink(creat(unlink(t, tmp), bz, BzSize(getsize(t, f))), f)

\* os.system(...) != 0
CompressFailed(outcome) == outcome # "ok"

(***************************************************************************)
(* killable_upload and abort_upload.  upload calls normal_upload (line     *)
(* 188; the call of killable_upload at line 189 is a comment), so this is  *)
(* a specification of its own: upload stands at line 189 with a file that  *)
(* is not empty, its thread calls killable_upload(key, fn), at most        *)
(* MaxUploads times, and another thread calls abort_upload() whenever it   *)
(* likes.  Thread objects are numbered in the order they are made.         *)
(***************************************************************************)
Threads == 1..MaxUploads

KillIdle ==
  /\ kpc = "idle"
  /\ upload_thread = 0
  /\ worker = [t \in Threads |-> "unborn"]
  /\ wend = [t \in Threads |-> ""]
  /\ pending = [t \in Threads |-> FALSE]
  /\ put_resp = None
  /\ responded = FALSE
  /\ kstat = None
  /\ apc = "idle"
  /\ thread = 0
  /\ tid = 0

killvars == <<kpc, upload_thread, worker, wend, pending, put_resp, responded, kstat,
              apc, thread, tid>>

\* what the threads of killable_upload and abort_upload leave alone
mainonly == <<tree, rec, pc, exit_event, polled, backoff, d, key, fn, sz, stat,
              success, sleeping, calls, cleaned, fails, iter, arg, via, retry,
              stale>>

(***************************************************************************)
(* Initial state: uploader_fn is about to enter its loop; the root holds   *)
(* no segment yet and at most one entry that is no directory: a regular    *)
(* file, or a link to nothing (which os.stat cannot stat).                 *)
(***************************************************************************)
NoArg == [key |-> "", fn |-> "", size |-> 0, resp |-> None]
NoRetry == [fn |-> "", class |-> 0, backoff |-> 0]

Strays ==
  {Absent,
   [kind |-> "dangling", ctime |-> 0, files |-> <<>>],
   [kind |-> "file", ctime |-> 1, files |-> <<>>]}

Init ==
  /\ tree \in {[e \in EntryNames |-> IF e \in StrayNames THEN x ELSE Absent] : x \in Strays}
  /\ rec = [s \in SegNames |-> "new"]
  /\ pc = "check"
  /\ exit_event = FALSE
  /\ polled = FALSE
  /\ backoff = BASE_BACKOFF
  /\ d = NoTask
  /\ key = ""
  /\ fn = ""
  /\ sz = 0
  /\ stat = None
  /\ success = FALSE
  /\ last_resp = None
  /\ last_exc = None
  /\ sleeping = 0
  /\ calls = <<>>
  /\ cleaned = FALSE
  /\ fails = 0
  /\ iter = [sleeps |-> 0, uploads |-> 0]
  /\ arg = NoArg
  /\ via = ""
  /\ retry = NoRetry
  /\ stale = {}
  /\ KillIdle

(***************************************************************************)
(* The recorder: it makes a segment directory, puts its marker in it,      *)
(* writes artifacts, and removes the marker; one segment after the other,  *)
(* in the order of the segment names.                                      *)
(***************************************************************************)
loopvars == <<pc, exit_event, polled, backoff, d, key, fn, sz, stat, success,
              last_resp, last_exc, sleeping, calls, cleaned, fails, iter, arg, via,
              retry>>

RecMkdir(s, c) ==
  /\ rec[s] = "new"
  /\ \A o \in SegNames \ {s} :
       rec[o] = IF NameIndex(o) < NameIndex(s) THEN "final" ELSE "new"
  /\ tree' = [tree EXCEPT ![s] = Dir(c, <<>>)]
  /\ rec' = [rec EXCEPT ![s] = "created"]
  /\ UNCHANGED loopvars
  /\ UNCHANGED <<stale, killvars>>

RecLock(s) ==
  /\ rec[s] = "created"
  /\ IsDir(tree, s)
  /\ tree' = creat(tree, PathOf(s, LockName), 0)
  /\ rec' = [rec EXCEPT ![s] = "locked"]
  /\ UNCHANGED loopvars
  /\ UNCHANGED <<stale, killvars>>

RecWrite(s, name, size) ==
  /\ rec[s] = "locked"
  /\ name \notin Names(tree, s)
  /\ tree' = creat(tree, PathOf(s, name), size)
  /\ UNCHANGED <<rec, loopvars>>
  /\ UNCHANGED <<stale, killvars>>

RecUnlock(s) ==
  /\ rec[s] = "locked"
  /\ tree' = unlink(tree, PathOf(s, LockName))
  /\ rec' = [rec EXCEPT ![s] = "final"]
  /\ UNCHANGED loopvars
  /\ UNCHANGED <<stale, killvars>>

Recorder ==
  \E s \in SegNames :
    \/ \E c \in Ctimes : RecMkdir(s, c)
    \/ RecLock(s)
    \/ \E name \in ArtifactNames, size \in FileSizes : RecWrite(s, name, size)
    \/ RecUnlock(s)

\* exit_event.set(), by whoever holds the event
SetExit ==
  /\ ~exit_event
  /\ pc \notin {"done", "crashed"}
  /\ exit_event' = TRUE
  /\ UNCHANGED <<tree, rec, pc, polled, backoff, d, key, fn, sz, stat, success,
                 last_resp, last_exc, sleeping, calls, cleaned, fails, iter, arg,
                 via, retry>>
  /\ UNCHANGED <<stale, killvars>>

(***************************************************************************)
(* uploader_fn and the calls it makes, one action per step.                *)
(***************************************************************************)
\* History counters stop at 2: the claims about them speak of "at most one".
Bump(n) == IF n < 2 THEN n + 1 ELSE n

\* An upload may fail only while fewer than MaxFails have failed in a row.
MayFail == fails < MaxFails

\* A loop that does not look at the flag.
NeverReturn(flag) == FALSE

\* line 214: if exit_event.is_set(): return
ShouldReturn(flag) == flag

Check ==
  /\ pc = "check"
  /\ polled' = exit_event
  /\ pc' = IF ShouldReturn(exit_event) THEN "done" ELSE "select"
  /\ iter' = IF pc' = "done" THEN iter ELSE [sleeps |-> 0, uploads |-> 0]
  /\ UNCHANGED <<tree, rec, exit_event, backoff, d, key, fn, sz, stat, success,
                 last_resp, last_exc, sleeping, calls, cleaned, fails, arg,
                 via, retry>>
  /\ UNCHANGED <<stale, killvars>>

\* lines 217-224: d = uploader.next_file_to_upload(); with no task, break
\* and time.sleep(5) begins (line 233); with a task, upload is called
Select ==
  /\ pc = "select"
  /\ \E lognames \in Scans(tree), ls \in Listings(tree) :
       LET r == next_file_to_upload(tree, lognames, ls) IN
       /\ d' = IF r.kind = "task" THEN r ELSE NoTask
       /\ CASE r.kind = "raise" ->
                 /\ pc' = "crashed"
                 /\ UNCHANGED <<key, fn, sleeping, iter, arg>>
            [] r.kind = "None" ->
                 /\ pc' = "idle_sleep"
                 /\ sleeping' = IDLE_SLEEP
                 /\ iter' = [iter EXCEPT !.sleeps = Bump(@)]
                 /\ UNCHANGED <<key, fn, arg>>
            [] r.kind = "task" ->
                 /\ pc' = "upload"
                 /\ key' = r.key
                 /\ fn' = r.fn
                 /\ iter' = [iter EXCEPT !.uploads = Bump(@)]
                 /\ arg' = [key |-> r.key, fn |-> r.fn, size |-> getsize(tree, r.fn),
                            resp |-> last_resp]
                 /\ UNCHANGED sleeping
  /\ retry' = NoRetry
  /\ UNCHANGED <<tree, rec, exit_event, polled, backoff, sz, stat, success,
                 last_resp, last_exc, calls, cleaned, fails, via>>
  /\ UNCHANGED <<stale, killvars>>

\* key and fn left as they were after the compression.
NotRenamed(s) == s

\* upload, lines 170-171: key += ext, fn += ext
Renamed(s) == s \o ext

\* upload, lines 162-171: the compression of a file whose path ends in "log"
Compress ==
  /\ pc = "upload"
  /\ IF endswith(fn, "log")
     THEN \E outcome \in CompressOutcomes :
            /\ CompressFailed(outcome) => MayFail
            /\ tree' = compress(tree, fn, outcome)
            /\ IF CompressFailed(outcome)
               THEN /\ success' = FALSE
                    /\ via' = "compression failure"
                    /\ pc' = "returned"
                    /\ UNCHANGED <<key, fn>>
               ELSE /\ key' = Renamed(key)
                    /\ fn' = Renamed(fn)
                    /\ pc' = "getsize"
                    /\ UNCHANGED <<success, via>>
     ELSE /\ pc' = "getsize"
          /\ UNCHANGED <<tree, key, fn, success, via>>
  /\ UNCHANGED <<rec, exit_event, polled, backoff, d, sz, stat, last_resp,
                 last_exc, sleeping, calls, cleaned, fails, iter, arg, retry>>
  /\ UNCHANGED <<stale, killvars>>

\* A size check that never takes the branch of the empty file.
IsEmptyNever(size) == FALSE

\* upload, line 183: if sz == 0
IsEmpty(size) == size = 0

\* upload, lines 173-186: the size check and the deletion of an empty file
GetSize ==
  /\ pc = "getsize"
  /\ IF ~exists(tree, fn)
     THEN /\ success' = FALSE
          /\ via' = "size-check failure"
          /\ pc' = "returned"
          /\ UNCHANGED <<tree, sz>>
     ELSE /\ sz' = getsize(tree, fn)
          /\ IF IsEmpty(sz')
             THEN /\ tree' = unlink(tree, fn)
                  /\ success' = TRUE
                  /\ via' = "zero-size deletion"
                  /\ pc' = "clean_dirs"
             ELSE /\ pc' = "api_get"
                  /\ UNCHANGED <<tree, success, via>>
  /\ UNCHANGED <<rec, exit_event, polled, backoff, d, key, fn, stat, last_resp,
                 last_exc, sleeping, calls, cleaned, fails, iter, arg, retry>>
  /\ UNCHANGED <<stale, killvars>>

Call(op, a, raised, code) == [op |-> op, arg |-> a, raised |-> raised, code |-> code]

\* last_resp and last_exc left as the call before left them.
Kept(resp) == resp

\* normal_upload, lines 130-131: what last_resp is set to before the attempt
Cleared(resp) == None

\* normal_upload lines 130-131 and do_upload lines 117-121: the request of
\* an upload url for key; an exception ends do_upload and normal_upload
\* returns last_resp.
ApiGet ==
  /\ pc = "api_get"
  /\ last_resp' = Cleared(last_resp)
  /\ \/ /\ calls' = Append(calls, Call("api_get", key, FALSE, 0))
        /\ last_exc' = Cleared(last_exc)
        /\ pc' = "put"
        /\ UNCHANGED stat
     \/ /\ MayFail
        /\ calls' = Append(calls, Call("api_get", key, TRUE, 0))
        /\ last_exc' = Exc("api_get")
        /\ stat' = last_resp'
        /\ pc' = "stat_check"
  /\ UNCHANGED <<tree, rec, exit_event, polled, backoff, d, key, fn, sz, success,
                 sleeping, cleaned, fails, iter, arg,
                 via, retry>>
  /\ UNCHANGED <<stale, killvars>>

\* do_upload lines 123-127 and normal_upload line 138: the PUT of the file
Put ==
  /\ pc = "put"
  /\ \/ \E code \in Statuses :
          /\ code # HTTP_OK => MayFail
          /\ calls' = Append(calls, Call("put", fn, FALSE, code))
          /\ last_resp' = Resp(code)
          /\ UNCHANGED last_exc
     \/ /\ MayFail
        /\ calls' = Append(calls, Call("put", fn, TRUE, 0))
        /\ last_exc' = Exc("requests.put")
        /\ UNCHANGED last_resp
  /\ stat' = last_resp'
  /\ pc' = "stat_check"
  /\ UNCHANGED <<tree, rec, exit_event, polled, backoff, d, key, fn, sz, success,
                 sleeping, cleaned, fails, iter, arg,
                 via, retry>>
  /\ UNCHANGED <<stale, killvars>>

\* A check that takes any response for a success.
SucceededOnAnyResponse(st) == ~st.isNone

\* upload, line 191
Succeeded(st) == ~st.isNone /\ st.status_code = HTTP_OK

\* upload, lines 191-197
StatCheck ==
  /\ pc = "stat_check"
  /\ IF Succeeded(stat)
     THEN /\ tree' = unlink(tree, fn)
          /\ success' = TRUE
          /\ via' = "transfer success"
     ELSE /\ success' = FALSE
          /\ via' = "transfer failure"
          /\ UNCHANGED tree
  /\ pc' = "clean_dirs"
  /\ UNCHANGED <<rec, exit_event, polled, backoff, d, key, fn, sz, stat,
                 last_resp, last_exc, sleeping, calls, cleaned, fails, iter, arg,
                 retry>>
  /\ UNCHANGED <<stale, killvars>>

\* upload, lines 199-201: self.clean_dirs(); return success
CleanDirs ==
  /\ pc = "clean_dirs"
  /\ \E order \in Orders(ListRoot(tree)) : tree' = clean_dirs(tree, order)
  /\ cleaned' = TRUE
  /\ pc' = "returned"
  /\ UNCHANGED <<rec, exit_event, polled, backoff, d, key, fn, sz, stat, success,
                 last_resp, last_exc, sleeping, calls, fails, iter, arg,
                 via, retry>>
  /\ UNCHANGED <<stale, killvars>>

\* line 229: random.uniform(0, backoff), on the grid of the model's unit
Jitter(b) == 0..b

\* uploader_fn, lines 224-229: what the loop does with upload's result; on
\* a failure time.sleep(backoff + random.uniform(0, backoff)) begins.  The
\* locals of the finished call are gone.
Returned ==
  /\ pc = "returned"
  /\ IF success
     THEN /\ backoff' = BASE_BACKOFF
          /\ fails' = 0
          /\ pc' = "check"
          /\ UNCHANGED <<sleeping, iter>>
     ELSE /\ fails' = fails + 1
          /\ \E jitter \in Jitter(backoff) : sleeping' = backoff + jitter
          /\ iter' = [iter EXCEPT !.sleeps = Bump(@)]
          /\ pc' = "backoff_sleep"
          /\ UNCHANGED backoff
  /\ d' = NoTask
  /\ key' = ""
  /\ fn' = ""
  /\ sz' = 0
  /\ stat' = None
  /\ success' = FALSE
  /\ calls' = <<>>
  /\ cleaned' = FALSE
  /\ arg' = NoArg
  /\ via' = ""
  /\ retry' = IF via = "transfer failure"
              THEN [fn |-> fn, class |-> d.class, backoff |-> backoff]
              ELSE NoRetry
  /\ UNCHANGED <<tree, rec, exit_event, polled, last_resp, last_exc>>
  /\ UNCHANGED <<stale, killvars>>

\* A sleep that is still going on when the loop goes on.
NotSlept(duration) == duration

\* time.sleep(duration) has returned: nothing is slept on
Slept(duration) == 0

\* A backoff that does not grow.
NotDoubled(b) == b

\* line 230: the doubled backoff
Doubled(b) == b * 2

\* lines 229-231: the sleep ends; backoff *= 2
BackoffWake ==
  /\ pc = "backoff_sleep"
  /\ sleeping' = Slept(sleeping)
  /\ backoff' = Doubled(backoff)
  /\ pc' = "check"
  /\ UNCHANGED <<tree, rec, exit_event, polled, d, key, fn, sz, stat, success,
                 last_resp, last_exc, calls, cleaned, fails, iter, arg,
                 via, retry>>
  /\ UNCHANGED <<stale, killvars>>

\* lines 233, 210-211: the sleep ends; backoff = 0.1
IdleWake ==
  /\ pc = "idle_sleep"
  /\ sleeping' = Slept(sleeping)
  /\ backoff' = BASE_BACKOFF
  /\ pc' = "check"
  /\ UNCHANGED <<tree, rec, exit_event, polled, d, key, fn, sz, stat, success,
                 last_resp, last_exc, calls, cleaned, fails, iter, arg,
                 via, retry>>
  /\ UNCHANGED <<stale, killvars>>

Next ==
  \/ Recorder
  \/ SetExit
  \/ Check
  \/ Select
  \/ Compress
  \/ GetSize
  \/ ApiGet
  \/ Put
  \/ StatCheck
  \/ CleanDirs
  \/ Returned
  \/ BackoffWake
  \/ IdleWake

Spec == Init /\ [][Next]_vars

(***************************************************************************)
(* The loop on a tree that no other actor changes: the recorder has        *)
(* finished every segment it made, and its segments hold what it and       *)
(* earlier runs of the loop left in them.                                  *)
(***************************************************************************)
\* The segments a finished recorder can have left; their files are not
\* empty.
Finished ==
  {Absent} \cup
  {Dir(c, f) : c \in Ctimes,
               f \in UNION {[S -> FileSizes \ {0}] : S \in SUBSET StoredNames}}

InitQuiet ==
  /\ tree \in {t \in [EntryNames -> Finished \cup Strays] :
                 /\ \A e \in StrayNames : t[e] \in Strays
                 /\ \A e \in SegNames : t[e] \in Finished}
  /\ rec = [s \in SegNames |-> "final"]
  /\ pc = "check"
  /\ exit_event = FALSE
  /\ polled = FALSE
  /\ backoff = BASE_BACKOFF
  /\ d = NoTask
  /\ key = ""
  /\ fn = ""
  /\ sz = 0
  /\ stat = None
  /\ success = FALSE
  /\ last_resp = None
  /\ last_exc = None
  /\ sleeping = 0
  /\ calls = <<>>
  /\ cleaned = FALSE
  /\ fails = 0
  /\ iter = [sleeps |-> 0, uploads |-> 0]
  /\ arg = NoArg
  /\ via = ""
  /\ retry = NoRetry
  /\ stale = {}
  /\ KillIdle

NextQuiet ==
  \/ SetExit
  \/ Check
  \/ Select
  \/ Compress
  \/ GetSize
  \/ ApiGet
  \/ Put
  \/ StatCheck
  \/ CleanDirs
  \/ Returned
  \/ BackoffWake
  \/ IdleWake

SpecQuiet == InitQuiet /\ [][NextQuiet]_vars

\* Thread.is_alive()
is_alive(t) == worker[t] \in {"api_get", "put", "store"}

\* threading._active holds the thread (from its start to its end)
InActive(t) == is_alive(t)

\* Thread.join() returns: the thread has ended
Joined(t) == worker[t] = "ended"

\* A join that does not wait.
JoinedAtOnce(t) == TRUE

\* The thread objects made so far.
Made == {t \in Threads : worker[t] # "unborn"}

\* last_resp and last_exc left as the call before left them.
NotReset(r) == r

\* killable_upload, lines 141-142: self.last_resp = None; self.last_exc = None
Reset(r) == None

\* killable_upload is called (lines 141-142)
KClear ==
  /\ kpc \in {"idle", "returned"}
  /\ Cardinality(Made) < MaxUploads
  /\ last_resp' = Reset(last_resp)
  /\ last_exc' = Reset(last_exc)
  /\ responded' = FALSE
  /\ kstat' = None
  /\ kpc' = "create"
  /\ UNCHANGED <<upload_thread, worker, wend, pending, put_resp, apc, thread, tid>>
  /\ UNCHANGED mainonly

\* line 144: self.upload_thread = threading.Thread(...)
KCreate ==
  /\ kpc = "create"
  /\ \E t \in Threads :
       /\ t = Cardinality(Made) + 1
       /\ upload_thread' = t
       /\ worker' = [worker EXCEPT ![t] = "created"]
  /\ kpc' = "start"
  /\ UNCHANGED <<wend, pending, put_resp, responded, kstat, apc, thread, tid,
                 last_resp, last_exc>>
  /\ UNCHANGED mainonly

\* line 145: self.upload_thread.start(); do_upload begins in the new thread
KStart ==
  /\ kpc = "start"
  /\ worker' = [worker EXCEPT ![upload_thread] = "api_get"]
  /\ kpc' = "join"
  /\ UNCHANGED <<upload_thread, wend, pending, put_resp, responded, kstat, apc,
                 thread, tid, last_resp, last_exc>>
  /\ UNCHANGED mainonly

\* line 146: self.upload_thread.join()
KJoin ==
  /\ kpc = "join"
  /\ Joined(upload_thread)
  /\ kpc' = "forget"
  /\ UNCHANGED <<upload_thread, worker, wend, pending, put_resp, responded, kstat,
                 apc, thread, tid, last_resp, last_exc>>
  /\ UNCHANGED mainonly

\* lines 147-149: self.upload_thread = None; return self.last_resp
KReturn ==
  /\ kpc = "forget"
  /\ upload_thread' = 0
  /\ kstat' = last_resp
  /\ kpc' = "returned"
  /\ UNCHANGED <<worker, wend, pending, put_resp, responded, apc, thread, tid,
                 last_resp, last_exc>>
  /\ UNCHANGED mainonly

\* do_upload in thread t, lines 117-121: the request of the upload url; an
\* exception is stored in last_exc and raised again, which ends the thread
WApiGet(t) ==
  /\ worker[t] = "api_get"
  /\ \/ /\ worker' = [worker EXCEPT ![t] = "put"]
        /\ UNCHANGED <<wend, last_exc>>
     \/ /\ worker' = [worker EXCEPT ![t] = "ended"]
        /\ wend' = [wend EXCEPT ![t] = "Exception"]
        /\ last_exc' = Exc("api_get")
  /\ UNCHANGED <<kpc, upload_thread, pending, put_resp, responded, kstat, apc,
                 thread, tid, last_resp>>
  /\ UNCHANGED mainonly

\* do_upload in thread t, lines 123-124: requests.put(url, data=f) returns a
\* response, or raises
WPut(t) ==
  /\ worker[t] = "put"
  /\ \/ \E code \in Statuses :
          /\ put_resp' = Resp(code)
          /\ responded' = TRUE
          /\ worker' = [worker EXCEPT ![t] = "store"]
          /\ UNCHANGED <<wend, last_exc>>
     \/ /\ worker' = [worker EXCEPT ![t] = "ended"]
        /\ wend' = [wend EXCEPT ![t] = "Exception"]
        /\ last_exc' = Exc("requests.put")
        /\ UNCHANGED <<put_resp, responded>>
  /\ UNCHANGED <<kpc, upload_thread, pending, kstat, apc, thread, tid,
                 last_resp>>
  /\ UNCHANGED mainonly

\* do_upload in thread t, line 124: self.last_resp = <the response>; the
\* function returns and the thread ends
WStore(t) ==
  /\ worker[t] = "store"
  /\ last_resp' = put_resp
  /\ worker' = [worker EXCEPT ![t] = "ended"]
  /\ wend' = [wend EXCEPT ![t] = "returned"]
  /\ UNCHANGED <<kpc, upload_thread, pending, put_resp, responded, kstat, apc,
                 thread, tid, last_exc>>
  /\ UNCHANGED mainonly

\* except Exception (line 125) catches what derives from Exception;
\* SystemExit does not
Catches(exctype) == exctype # "SystemExit"

\* The interpreter raises the pending SystemExit in thread t, between two of
\* its instructions: do_upload does not catch it, the thread ends.
WKilled(t) ==
  /\ is_alive(t)
  /\ pending[t]
  /\ worker' = [worker EXCEPT ![t] = "ended"]
  /\ wend' = [wend EXCEPT ![t] = "SystemExit"]
  /\ pending' = [pending EXCEPT ![t] = FALSE]
  /\ last_exc' = IF Catches("SystemExit") THEN Exc("SystemExit") ELSE last_exc
  /\ UNCHANGED <<kpc, upload_thread, put_resp, responded, kstat, apc, thread, tid,
                 last_resp>>
  /\ UNCHANGED mainonly

Worker == \E t \in Threads : WApiGet(t) \/ WPut(t) \/ WStore(t) \/ WKilled(t)

\* abort_upload, lines 152-154: thread = self.upload_thread; None: return
ARead ==
  /\ apc \in {"idle", "returned"}
  /\ thread' = upload_thread
  /\ apc' = IF upload_thread = 0 THEN "returned" ELSE "is_alive"
  /\ tid' = 0
  /\ UNCHANGED <<kpc, upload_thread, worker, wend, pending, put_resp, responded,
                 kstat, last_resp, last_exc>>
  /\ UNCHANGED mainonly

\* lines 155-156: if not thread.is_alive(): return
AIsAlive ==
  /\ apc = "is_alive"
  /\ apc' = IF is_alive(thread) THEN "lookup" ELSE "returned"
  /\ UNCHANGED <<kpc, upload_thread, worker, wend, pending, put_resp, responded,
                 kstat, thread, tid, last_resp, last_exc>>
  /\ UNCHANGED mainonly

\* raise_on_thread, lines 18-23: the search of threading._active for the
\* thread; Exception("Could not find thread") when it is not there
ALookup ==
  /\ apc = "lookup"
  /\ IF InActive(thread)
     THEN /\ tid' = thread
          /\ apc' = "set_async_exc"
     ELSE /\ apc' = "raised"
          /\ UNCHANGED tid
  /\ UNCHANGED <<kpc, upload_thread, worker, wend, pending, put_resp, responded,
                 kstat, thread, last_resp, last_exc>>
  /\ UNCHANGED mainonly

\* raise_on_thread, lines 29-32: PyThreadState_SetAsyncExc(tid, SystemExit);
\* it returns 0 for a thread that is gone, and ValueError is raised
ASetAsyncExc ==
  /\ apc = "set_async_exc"
  /\ IF InActive(tid)
     THEN /\ pending' = [pending EXCEPT ![tid] = TRUE]
          /\ apc' = "join"
     ELSE /\ apc' = "raised"
          /\ UNCHANGED pending
  /\ UNCHANGED <<kpc, upload_thread, worker, wend, put_resp, responded, kstat,
                 thread, tid, last_resp, last_exc>>
  /\ UNCHANGED mainonly

\* abort_upload, line 158: thread.join()
AJoin ==
  /\ apc = "join"
  /\ Joined(thread)
  /\ apc' = "returned"
  /\ UNCHANGED <<kpc, upload_thread, worker, wend, pending, put_resp, responded,
                 kstat, thread, tid, last_resp, last_exc>>
  /\ UNCHANGED mainonly

InitKill ==
  /\ tree = [e \in EntryNames |->
               IF e = "a" THEN Dir(1, "fcam.hevc" :> 3) ELSE Absent]
  /\ rec = [s \in SegNames |-> "final"]
  /\ pc = "api_get"
  /\ exit_event = FALSE
  /\ polled = FALSE
  /\ backoff = BASE_BACKOFF
  /\ d = Task(join("a", "fcam.hevc"), PathOf("a", "fcam.hevc"), 1)
  /\ key = d.key
  /\ fn = d.fn
  /\ sz = getsize(tree, fn)
  /\ stat = None
  /\ success = FALSE
  /\ last_resp \in {None} \cup {Resp(code) : code \in Statuses}
  /\ last_exc = None
  /\ sleeping = 0
  /\ calls = <<>>
  /\ cleaned = FALSE
  /\ fails = 0
  /\ iter = [sleeps |-> 0, uploads |-> 1]
  /\ arg = [key |-> key, fn |-> fn, size |-> sz, resp |-> last_resp]
  /\ via = ""
  /\ retry = NoRetry
  /\ stale = {}
  /\ KillIdle

NextKill ==
  \/ KClear
  \/ KCreate
  \/ KStart
  \/ KJoin
  \/ KReturn
  \/ Worker
  \/ ARead
  \/ AIsAlive
  \/ ALookup
  \/ ASetAsyncExc
  \/ AJoin

SpecKill == InitKill /\ [][NextKill]_vars

(***************************************************************************)
(* Properties.                                                             *)
(***************************************************************************)
\* The segment holds a marker file.
Locked(t, logname) ==
  IsDir(t, logname) /\ \E n \in Names(t, logname) : endswith(n, ".lock")

\* The segment is a directory without a marker file.
Eligible(t, logname) == IsDir(t, logname) /\ ~Locked(t, logname)

\* What next_file_to_upload can return (or raise) from the tree, over the
\* orders in which the directories can be listed.
Selections(t) ==
  {next_file_to_upload(t, lognames, ls) : lognames \in Scans(t), ls \in Listings(t)}

\* C1: whatever the tree is when next_file_to_upload is called, a task it
\* returns names a file that exists in a segment holding no file whose name
\* ends in ".lock".
C1_NeverFromLockedSegment ==
  pc = "select" =>
    \A r \in Selections(tree) :
      r.kind = "task" =>
        /\ exists(tree, r.fn)
        /\ \A sn \in Parse(r.fn) : ~Locked(tree, sn[1])

\* C1 witness: next_file_to_upload is called on a tree with a marked segment
\* that holds an artifact, and returns a task.
C1_Witness ==
  /\ pc = "select"
  /\ \E s \in SegNames : Locked(tree, s) /\ Names(tree, s) \cap ArtifactNames # {}
  /\ \E r \in Selections(tree) : r.kind = "task"

LogNames == {"rlog", "rlog.bz2"}

\* Some segment without a marker holds a log artifact.
EligibleLog(t) ==
  \E s \in EntryNames : Eligible(t, s) /\ Names(t, s) \cap LogNames # {}

\* C2: when a marker-free segment holds a log artifact, a call of
\* next_file_to_upload that returns does not return "no task", and the task
\* it returns is of class 0 and names a log artifact; a task of class 1 is
\* returned only when no marker-free segment holds a log artifact.  (A call
\* that raises returns nothing.)
C2_LogsFirst ==
  pc = "select" =>
    \A r \in Selections(tree) :
      /\ EligibleLog(tree) =>
           /\ r.kind # "None"
           /\ r.kind = "task" =>
                /\ r.class = 0
                /\ \E sn \in Parse(r.fn) : sn[2] \in LogNames
      /\ (r.kind = "task" /\ r.class = 1) => ~EligibleLog(tree)

\* C2 witness: a marker-free segment that holds no log sorts before a
\* marker-free segment that holds one, and the log of the later segment is
\* returned as a task of class 0.
C2_Witness ==
  /\ pc = "select"
  /\ \E s1, s2 \in SegNames :
       /\ Eligible(tree, s1) /\ Eligible(tree, s2)
       /\ tree[s1].ctime < tree[s2].ctime
       /\ Names(tree, s1) \cap LogNames = {}
       /\ \E n \in Names(tree, s1) : IsCameraName(n)
       /\ \E r \in Selections(tree) :
            r.kind = "task" /\ r.class = 0 /\ r.key = join(s2, "rlog")

\* An upload call is in progress (upload was called and uploader_fn has not
\* yet used its result).
InUpload == pc \in {"upload", "getsize", "api_get", "put", "stat_check", "clean_dirs", "returned"}

\* C3: when upload returns after it found the file non-empty, it returns
\* success exactly when its last network call was a PUT answered with status
\* 200; then the file is gone; otherwise (another status, the upload url
\* request raised, the PUT raised) the file is still there, its size the same.
C3_DeletedIffStatus200 ==
  (pc = "returned" /\ sz # 0) =>
    /\ calls # <<>>
    /\ LET last == calls[Len(calls)] IN
       success <=> (last.op = "put" /\ ~last.raised /\ last.code = 200)
    /\ success => ~exists(tree, fn)
    /\ ~success => (exists(tree, fn) /\ getsize(tree, fn) = sz)

\* C3 witness: upload returns success after a PUT answered with status 200.
C3_Witness ==
  /\ pc = "returned" /\ sz # 0 /\ success
  /\ calls # <<>> /\ calls[Len(calls)].code = 200
  /\ ~exists(tree, fn)

\* C4 as claimed: upload of any file that is 0 bytes long when upload is
\* called, a log included, returns success with the file removed and no
\* network call made (a call whose compression command failed set aside).
C4_EmptyFileNeverTransferred ==
  (pc = "returned" /\ arg.size = 0 /\ via # "compression failure") =>
    (success /\ ~exists(tree, arg.fn) /\ calls = <<>>)

\* C4 as amended: upload of a file that is 0 bytes long when upload is called
\* and whose path does not end in "log" makes no network call, and returns
\* success with the file removed.
C4_EmptyNonLogNeverTransferred ==
  (InUpload /\ arg.size = 0 /\ ~endswith(arg.fn, "log")) =>
    /\ calls = <<>>
    /\ pc \notin {"api_get", "put", "stat_check"}
    /\ pc = "returned" => (success /\ ~exists(tree, arg.fn))

\* C4 witness: upload of an empty camera file returns.
C4_Witness ==
  /\ pc = "returned" /\ arg.size = 0 /\ ~endswith(arg.fn, "log")
  /\ success /\ ~exists(tree, arg.fn)

\* C5: when the compression command fails, upload returns failure, has made
\* no network call, and the file it was called with is there, its size the
\* same.
C5_CompressionFailure ==
  (pc = "returned" /\ via = "compression failure") =>
    /\ ~success
    /\ calls = <<>>
    /\ exists(tree, arg.fn)
    /\ getsize(tree, arg.fn) = arg.size

\* C5 witness: upload returns after bzip2 failed on a non-empty log.
C5_Witness ==
  /\ pc = "returned" /\ via = "compression failure"
  /\ arg.size # 0
  /\ exists(tree, arg.fn \o ".tmp")

\* C6: once upload has compressed a file whose path ends in "log", its key
\* and fn are the key and path it was called with, ".bz2" appended; the file
\* it was called with is gone; as long as no network call was made the
\* compressed file is there; and every upload url request is for that key
\* and every PUT is of that path.
C6_CompressedBeforeNetwork ==
  (endswith(arg.fn, "log") /\ pc \in {"getsize", "api_get", "put", "stat_check"}) =>
    /\ key = arg.key \o ".bz2"
    /\ fn = arg.fn \o ".bz2"
    /\ ~exists(tree, arg.fn)
    /\ calls = <<>> => exists(tree, arg.fn \o ".bz2")
    /\ \A i \in DOMAIN calls :
         calls[i].arg = IF calls[i].op = "api_get"
                        THEN arg.key \o ".bz2" ELSE arg.fn \o ".bz2"

\* C6 witness: the PUT of a compressed log has been made.
C6_Witness ==
  /\ pc = "stat_check"
  /\ endswith(arg.fn, "log")
  /\ Len(calls) = 2

RECURSIVE Pow2(_)
Pow2(n) == IF n = 0 THEN 1 ELSE 2 * Pow2(n - 1)

\* C7: during the sleep that follows the k-th failed upload in a row, backoff
\* is B * 2^(k-1) and the sleep lasts at least that and at most B * 2^k;
\* everywhere else backoff is B * 2^k after k failures in a row, so B after a
\* success.
C7_Backoff ==
  /\ pc = "backoff_sleep" =>
       /\ fails >= 1
       /\ backoff = BASE_BACKOFF * Pow2(fails - 1)
       /\ sleeping >= BASE_BACKOFF * Pow2(fails - 1)
       /\ sleeping <= BASE_BACKOFF * Pow2(fails)
  /\ pc # "backoff_sleep" => backoff = BASE_BACKOFF * Pow2(fails)

\* C7 witness: the sleep after the second failure in a row, at its longest.
C7_Witness ==
  /\ pc = "backoff_sleep"
  /\ fails = 2
  /\ sleeping = BASE_BACKOFF * 4

\* C8: between two polls of exit_event at line 214 uploader_fn begins at
\* most one sleep and at most one upload, and a poll that finds the flag set
\* is followed by nothing but the return: so once the flag is set and stays
\* set, the running iteration is the last.
C8_ExitWithinOneIteration ==
  /\ iter.sleeps <= 1
  /\ iter.uploads <= 1
  /\ polled => pc = "done"
  /\ pc = "done" => (polled /\ exit_event)

\* C8 witness: uploader_fn has returned, and its last iteration made an
\* upload and slept.
C8_Witness ==
  /\ pc = "done"
  /\ exit_event
  /\ iter.uploads = 1
  /\ iter.sleeps = 1

\* C9 as claimed: uploader_fn ends only by the return of line 215, after it
\* saw the flag set; no error of a scan or of an upload ends it.
C9_OnlyCancellationEnds ==
  pc \in {"done", "crashed"} => (pc = "done" /\ polled)

\* C10 as claimed: whenever upload returns, clean_dirs has run in that call.
C10_CleanupOnEveryReturn ==
  pc = "returned" => cleaned

\* The segment directory of the path p.
SegmentOf(p) == {sn[1] : sn \in Parse(p)}

\* C11 as claimed: when upload returns after it deleted a file (the empty
\* file, or the file whose PUT was answered with 200) and that file was the
\* last of its segment, the segment's directory is gone, whatever else the
\* root holds.
C11_EmptiedSegmentRemoved ==
  (pc = "returned" /\ via \in {"zero-size deletion", "transfer success"}) =>
    \A s \in SegmentOf(fn) : IsDir(tree, s) => Names(tree, s) # {}

\* The names of class c: 0, the logs of the first pass; 1, what the second
\* pass takes.
OfClass(name, c) == IF c = 0 THEN name \in LogNames ELSE IsCameraName(name)

\* The marker-free segments that hold a file of class c.
Candidates(t, c) ==
  {s \in EntryNames : Eligible(t, s) /\ \E n \in Names(t, s) : OfClass(n, c)}

\* The candidates of class c with the smallest timestamp.
Oldest(t, c) ==
  {s \in Candidates(t, c) : \A o \in Candidates(t, c) : t[s].ctime <= t[o].ctime}

\* The place of entry e in the listing lst.
PlaceIn(lst, e) == CHOOSE i \in DOMAIN lst : lst[i] = e

\* C12 as claimed: a task of class c that next_file_to_upload returns is a
\* file of class c in a marker-free segment with the smallest timestamp among
\* the marker-free segments holding a file of that class, and of those with
\* that timestamp the one os.listdir(ROOT) listed first.
C12_OldestTiesByListing ==
  pc = "select" =>
    \A lst \in Orders(ListRoot(tree)), ls \in Listings(tree) :
      LET r == next_file_to_upload(tree, listdir_by_creation_date(tree, lst), ls) IN
      r.kind = "task" =>
        \A sn \in Parse(r.fn) :
          /\ OfClass(sn[2], r.class)
          /\ sn[1] \in Oldest(tree, r.class)
          /\ \A o \in Oldest(tree, r.class) : PlaceIn(lst, sn[1]) <= PlaceIn(lst, o)

\* C12 as amended: ... and of those with that timestamp the one whose name
\* is the smallest.
C12_OldestTiesByName ==
  pc = "select" =>
    \A r \in Selections(tree) :
      r.kind = "task" =>
        \A sn \in Parse(r.fn) :
          /\ OfClass(sn[2], r.class)
          /\ sn[1] \in Oldest(tree, r.class)
          /\ \A o \in Oldest(tree, r.class) : NameIndex(sn[1]) <= NameIndex(o)

\* C12 witness: two marker-free segments of one timestamp hold a log each,
\* and however the root is listed the task returned is the log of a.
C12_Witness ==
  /\ pc = "select"
  /\ Eligible(tree, "a") /\ Eligible(tree, "b")
  /\ tree["a"].ctime = tree["b"].ctime
  /\ "rlog" \in Names(tree, "a") /\ "rlog" \in Names(tree, "b")
  /\ \A r \in Selections(tree) : r.kind = "task" /\ r.key = join("a", "rlog")

\* The class of the file name, as next_file_to_upload would return it.
ClassOf(name) == IF name \in LogNames THEN 0 ELSE 1

C14_ActiveSegmentsUntouched ==
  [][pc' # pc =>
       \A s \in SegNames :
         /\ ~IsDir(tree, s) => ~IsDir(tree', s)
         /\ rec[s] # "final" => tree'[s] = tree[s]
         /\ (IsDir(tree, s) /\ ~IsDir(tree', s)) =>
              (rec[s] = "final" /\ Names(tree, s) = {})]_vars

(***************************************************************************)
(* The loop on a tree that an earlier run of the daemon left when it ended *)
(* during a compression: a log can have a file <log>.tmp next to it.       *)
(***************************************************************************)
LeftNames == ArtifactNames \cup {"rlog.tmp"}

Left ==
  {Absent} \cup
  {Dir(c, f) : c \in Ctimes,
               f \in UNION {[S -> FileSizes \ {0}] : S \in SUBSET LeftNames}}

InitStale ==
  /\ tree \in {t \in [EntryNames -> Left \cup Strays] :
                 /\ \A e \in StrayNames : t[e] \in Strays
                 /\ \A e \in SegNames : t[e] \in Left}
  /\ rec = [s \in SegNames |-> "final"]
  /\ pc = "check"
  /\ exit_event = FALSE
  /\ polled = FALSE
  /\ backoff = BASE_BACKOFF
  /\ d = NoTask
  /\ key = ""
  /\ fn = ""
  /\ sz = 0
  /\ stat = None
  /\ success = FALSE
  /\ last_resp = None
  /\ last_exc = None
  /\ sleeping = 0
  /\ calls = <<>>
  /\ cleaned = FALSE
  /\ fails = 0
  /\ iter = [sleeps |-> 0, uploads |-> 0]
  /\ arg = NoArg
  /\ via = ""
  /\ retry = NoRetry
  /\ stale = {PathOf(e, "rlog.tmp") : e \in {e \in SegNames : "rlog.tmp" \in Names(tree, e)}}
  /\ KillIdle

SpecStale == InitStale /\ [][NextQuiet]_vars

(***************************************************************************)
(* Properties of killable_upload and abort_upload.                         *)
(***************************************************************************)
\* C15 as claimed: abort_upload never ends with an exception; and when it
\* has returned after it set the exception for a thread, that thread has
\* ended.
C15_AbortReturnsNormally ==
  /\ apc # "raised"
  /\ (apc = "returned" /\ tid # 0) => worker[tid] = "ended"

\* The thread object of the call of killable_upload in progress, or of the
\* last one.
Latest == Cardinality(Made)

\* C16: when killable_upload returns after its thread was ended by the
\* SystemExit of abort_upload before requests.put had returned a response,
\* it returns None, whatever the call before had stored: the test of line
\* 191 fails on it, and the file is there, its size the same, and a scan can
\* return it.
C16_InterruptedReportsNone ==
  (kpc = "returned" /\ wend[Latest] = "SystemExit" /\ ~responded) =>
    /\ kstat = None
    /\ ~Succeeded(kstat)
    /\ exists(tree, fn) /\ getsize(tree, fn) = sz
    /\ \E r \in Selections(tree) : r.kind = "task" /\ r.fn = fn

\* C16 witness: a first call of killable_upload stored a response; the
\* second was interrupted before its PUT had returned, and returned None.
C16_Witness ==
  /\ kpc = "returned"
  /\ Latest = 2
  /\ wend[1] = "returned"
  /\ wend[2] = "SystemExit"
  /\ ~responded
  /\ kstat = None

\* C17: a sleep is in progress only at the two time.sleep calls of
\* uploader_fn, and no upload call is in progress then; an upload call makes
\* at most one upload url request and after it at most one PUT, the PUT only
\* when the request returned; and both are made after the compression: of a
\* file whose path ends in "log" the compressed one is what they name.
C17_OneThingAtATime ==
  /\ sleeping # 0 <=> pc \in {"idle_sleep", "backoff_sleep"}
  /\ sleeping # 0 => (~InUpload /\ calls = <<>> /\ arg = NoArg)
  /\ Len(calls) <= 2
  /\ \A i \in DOMAIN calls : calls[i].op = IF i = 1 THEN "api_get" ELSE "put"
  /\ Len(calls) = 2 => ~calls[1].raised
  /\ calls # <<>> => pc \in {"put", "stat_check", "clean_dirs", "returned"}
  /\ (calls # <<>> /\ endswith(arg.fn, "log")) =>
       (fn = Renamed(arg.fn) /\ ~exists(tree, arg.fn))

\* C17 witness: an upload call that compressed its file, requested the
\* upload url and made the PUT, which failed, returns: the backoff sleep is
\* what comes next.
C17_Witness ==
  /\ pc = "returned"
  /\ ~success
  /\ endswith(arg.fn, "log")
  /\ Len(calls) = 2
  /\ sleeping = 0

\* A segment without a marker holds a file whose name ends in neither
\* ".lock" nor ".tmp".
Remaining ==
  \E s \in SegNames : Eligible(tree, s) /\ \E n \in Names(tree, s) : IsCameraName(n)

\* C18 as claimed, in what it says of every finite run: on a tree that only
\* the loop changes, as long as a marker-free segment holds a file to upload
\* the loop has not come to an end that was not asked for, so that a fairly
\* scheduled loop goes on to upload it.
C18_NeverEndsWithWorkLeft ==
  Remaining => pc # "crashed"

\* The names that a step makes disappear from segment s.
GoneFrom(s) ==
  IF ~IsDir(tree, s) THEN {}
  ELSE IF ~IsDir(tree', s) THEN Names(tree, s)
       ELSE Names(tree, s) \ Names(tree', s)

\* The files that a step makes disappear.
Gone == UNION {{PathOf(s, n) : n \in GoneFrom(s)} : s \in SegNames}

\* The step is upload's os.unlink of the file p that it found empty.
RemovedAsEmpty(p) ==
  pc = "getsize" /\ p = fn /\ getsize(tree, p) = 0

\* The step is upload's os.unlink of the file p after the PUT of p, in the
\* same call, was answered with status 200.
RemovedAsTransferred(p) ==
  /\ pc = "stat_check" /\ p = fn
  /\ calls # <<>>
  /\ LET last == calls[Len(calls)] IN
     last.op = "put" /\ last.arg = p /\ ~last.raised /\ last.code = HTTP_OK

\* The step is the compression of the log p, and p.bz2 is in place after it.
RemovedAsCompressed(p) ==
  /\ pc = "upload" /\ p = fn /\ endswith(p, "log")
  /\ exists(tree', p \o ext)
  /\ getsize(tree', p \o ext) = BzSize(getsize(tree, p))

\* The step is the compression of the log next to the file p = <log>.tmp,
\* which the command wrote over and renamed to <log>.bz2.
RenamedIntoPlace(p) ==
  /\ pc = "upload" /\ p = fn \o ".tmp" /\ endswith(fn, "log")
  /\ exists(tree', fn \o ext)

\* C19 as claimed: a step of the loop makes a file disappear only as the
\* empty file upload checked, as the file whose PUT was answered 200, or as
\* the log whose compressed replacement is in place; of the .tmp files only
\* one that the loop made itself can go with the compression.
C19_RemovesOnlyItsOwn ==
  [][pc' # pc =>
       \A p \in Gone :
         \/ RemovedAsEmpty(p)
         \/ RemovedAsTransferred(p)
         \/ RemovedAsCompressed(p)
         \/ (RenamedIntoPlace(p) /\ p \notin stale)]_vars

\* C19 as amended: ... or as the file <log>.tmp next to the log that is
\* compressed in that step, whoever made it.
C19_RemovesOnlyListedFiles ==
  [][pc' # pc =>
       \A p \in Gone :
         \/ RemovedAsEmpty(p)
         \/ RemovedAsTransferred(p)
         \/ RemovedAsCompressed(p)
         \/ RenamedIntoPlace(p)]_vars

\* C19 witness: the compression of a log has replaced it by its .bz2, and
\* with it the .tmp file that was next to it when the loop began.
C19_Witness ==
  /\ pc = "getsize"
  /\ endswith(arg.fn, "log")
  /\ (arg.fn \o ".tmp") \in stale
  /\ ~exists(tree, arg.fn \o ".tmp")
  /\ ~exists(tree, arg.fn)
  /\ exists(tree, fn)

\* C20: what upload gets from normal_upload is the response of the PUT of
\* this call, or None when the upload url request or the PUT raised, whatever
\* last_resp held when upload was called; last_exc holds an exception exactly
\* when one was raised in this call; and a call whose request or PUT raised
\* returns failure with its file left in place.
C20_OnlyThisCallsResponse ==
  (pc \in {"stat_check", "clean_dirs", "returned"} /\ calls # <<>>) =>
    LET last == calls[Len(calls)] IN
    /\ stat = IF last.op = "put" /\ ~last.raised THEN Resp(last.code) ELSE None
    /\ last_resp = stat
    /\ last_exc.isNone <=> ~last.raised
    /\ (last.raised /\ pc # "stat_check") => (~success /\ exists(tree, fn))

\* C20 witness: upload was called while last_resp held a response with
\* status 200; its PUT raised, and it returns failure, the file in place.
C20_Witness ==
  /\ pc = "returned"
  /\ arg.resp = Resp(HTTP_OK)
  /\ Len(calls) = 2 /\ calls[2].raised
  /\ stat = None
  /\ ~success
  /\ exists(tree, fn)

====
